---- MODULE Spec2Model ----
(***************************************************************************)
(* RetroNova API: the entity store (the seven tables of app/models.py)     *)
(* and the services that read and write it.                                *)
(*                                                                         *)
(* A table is a set of rows (records). A service call is modelled twice:   *)
(*  - as one atomic action (the whole handler, lookup to commit), in the   *)
(*    specifications SpecFriends, SpecPromo, SpecPromoCodes (two codes),   *)
(*    SpecLifecycle (the create, update, delete and restore services of    *)
(*    each table) and SpecServices (those, with the redemption);           *)
(*  - as a request that runs in steps (each query, then the commit), with  *)
(*    requests interleaved, in SpecCreateRace, SpecRedeemRace and          *)
(*    SpecRedeemRace3.                                                     *)
(* UUIDs are fresh integers drawn from a counter; datetime.utcnow() is     *)
(* the clock variable now.                                                 *)
(***************************************************************************)
EXTENDS Integers, FiniteSets, Sequences, TLC

VARIABLES
    friends,        \* table friends: set of Friends rows
    nextFriendId,   \* next fresh uuid for a Friends row
    promos,         \* table promo_codes: set of PromoCodes rows
    nextPromoId,    \* next fresh uuid for a PromoCodes row
    users,          \* table users: set of Users rows
    nextUserId,     \* next fresh uuid for a Users row
    now,            \* datetime.utcnow()
    last,           \* the service call that led to this state: operation, arguments, response
    pc,             \* per request of a race: the step it is at
    loc,            \* per request of a race: its arguments and the rows its session loaded
    store0,         \* the store a race started from
    tables,         \* tables games, arcade_machines, parties, payments: name -> set of rows
    nextRowId,      \* next fresh uuid for a row of these tables
    kind            \* the table whose services a run of SpecLifecycle calls

vars == <<friends, nextFriendId, promos, nextPromoId, users, nextUserId, now, last,
          pc, loc, store0, tables, nextRowId, kind>>

raceVars == <<pc, loc, store0>>

catalogVars == <<tables, nextRowId, kind>>

(***************************************************************************)
(* Bounds of the model.                                                    *)
(***************************************************************************)
MaxFriendRows == 2     \* Friends rows ever inserted
MaxPromoRows == 2      \* PromoCodes rows ever inserted
MaxNow == 1            \* the clock runs 0..MaxNow
MaxUsed == 2           \* used_count of a code without max_uses is driven up to this
MaxTicket == 4         \* nb_ticket is driven up to this
MaxUserRows == 2       \* Users rows ever inserted
MaxRows == 2           \* rows ever inserted in one of the other tables

\* The users of the model: A = 1 and B = 2. The friendship services compare rows
\* with a request by the ordered pair (friend_from_id, friend_to_id) alone, so two
\* users give every case: the same pair, the reverse pair and a user with itself.
UserIds == {1, 2}

\* Python None / SQL NULL in an optional integer or datetime column
NULL == -1

(***************************************************************************)
(* app/utils/db_utils.py                                                   *)
(***************************************************************************)
\* is_deleted is NOT NULL in every table, so the IS NULL arm selects no row.
filter_deleted(query, include_deleted) ==
    IF ~include_deleted
    THEN {r \in query : r.is_deleted = FALSE}
    ELSE query

soft_delete(db_obj, t) ==
    [db_obj EXCEPT !.is_deleted = TRUE, !.deleted_at = t]

\* Query.first(): a row of the result, or none. The callers below test for
\* emptiness first; the unique constraints leave at most one row to choose.
first(query) == CHOOSE r \in query : TRUE

\* UPDATE of one row, by primary key
Put(table, row) == {r \in table : r.id # row.id} \cup {row}

(***************************************************************************)
(* app/schemas.py, app/models.py: Friends                                  *)
(***************************************************************************)
FriendFlags == {"accept", "decline", "delete"}

\* FriendsCreate: two user ids and the three flags (each defaults to False,
\* each may be sent by the client).
FriendsCreate ==
    [friend_from_id : UserIds, friend_to_id : UserIds,
     accept : BOOLEAN, decline : BOOLEAN, delete : BOOLEAN]

\* FriendsUpdate after .dict(exclude_unset=True): the flags the client sent.
FriendsUpdate == UNION {[S -> BOOLEAN] : S \in SUBSET FriendFlags}

\* The requests the actions draw: every pair of users and every value of the
\* status flags accept and decline; the reserved flag delete, which no service
\* reads, is left at its default.
CreateRequests == {d \in FriendsCreate : d.delete = FALSE}

UpdateRequests == {u \in FriendsUpdate : "delete" \notin DOMAIN u}

\* Friends(**friend_data.model_dump()) with the column defaults of BaseModel
NewFriendRow(id, d) ==
    [id |-> id,
     friend_from_id |-> d.friend_from_id, friend_to_id |-> d.friend_to_id,
     accept |-> d.accept, decline |-> d.decline, delete |-> d.delete,
     is_deleted |-> FALSE, deleted_at |-> NULL]

\* UniqueConstraint("friend_from_id", "friend_to_id"): an INSERT of (from, to)
\* is refused when a row with that ordered pair is there.
UniqueFriendshipOk(db, row) ==
    ~\E r \in db : /\ r.friend_from_id = row.friend_from_id
                   /\ r.friend_to_id = row.friend_to_id
                   /\ r.id # row.id

(***************************************************************************)
(* app/services/friends.py. Each service is an operator from the table     *)
(* (and the inputs) to the table after the call, the response res and the  *)
(* id ret of the row returned (0: none).                                   *)
(***************************************************************************)
Resp(db, res, ret) == [db |-> db, res |-> res, ret |-> ret]

SameDirection(db, d) ==
    filter_deleted({r \in db : /\ r.friend_from_id = d.friend_from_id
                               /\ r.friend_to_id = d.friend_to_id}, TRUE)

ReverseDirection(db, d) ==
    filter_deleted({r \in db : /\ r.friend_from_id = d.friend_to_id
                               /\ r.friend_to_id = d.friend_from_id}, TRUE)

\* A create_friend_service without the reverse-direction lookup.
create_friend_no_reverse(db, d, id) ==
    LET same == SameDirection(db, d) IN
    IF same # {}
    THEN LET existing_friend == first(same) IN
         IF existing_friend.is_deleted
         THEN Resp(Put(db, [existing_friend EXCEPT !.is_deleted = FALSE,
                                                  !.deleted_at = NULL]),
                   "ok", existing_friend.id)
         ELSE Resp(db, "DuplicateFriendship", 0)
    ELSE Resp(db \cup {NewFriendRow(id, d)}, "ok", id)

\* A create_friend_service that inserts a new row over a soft-deleted one.
create_friend_no_resurrect(db, d, id) ==
    LET same == SameDirection(db, d)
        rev == ReverseDirection(db, d) IN
    IF same # {} /\ ~first(same).is_deleted
    THEN Resp(db, "DuplicateFriendship", 0)
    ELSE IF same = {} /\ rev # {}
    THEN Resp(db, "ReverseDuplicate", 0)
    ELSE Resp({r \in db : r \notin same} \cup {NewFriendRow(id, d)}, "ok", id)

\* A create_friend_service that restores a soft-deleted reverse edge.
create_friend_restore_reverse(db, d, id) ==
    LET same == SameDirection(db, d)
        rev == ReverseDirection(db, d) IN
    IF same # {}
    THEN LET existing_friend == first(same) IN
         IF existing_friend.is_deleted
         THEN Resp(Put(db, [existing_friend EXCEPT !.is_deleted = FALSE,
                                                  !.deleted_at = NULL]),
                   "ok", existing_friend.id)
         ELSE Resp(db, "DuplicateFriendship", 0)
    ELSE IF rev # {}
    THEN LET reverse_friendship == first(rev) IN
         IF reverse_friendship.is_deleted
         THEN Resp(Put(db, [reverse_friendship EXCEPT !.is_deleted = FALSE,
                                                     !.deleted_at = NULL]),
                   "ok", reverse_friendship.id)
         ELSE Resp(db, "ReverseDuplicate", 0)
    ELSE Resp(db \cup {NewFriendRow(id, d)}, "ok", id)

\* A create_friend_service that reports every existing edge as a duplicate.
create_friend_same_error(db, d, id) ==
    LET same == SameDirection(db, d)
        rev == ReverseDirection(db, d) IN
    IF same # {}
    THEN LET existing_friend == first(same) IN
         IF existing_friend.is_deleted
         THEN Resp(Put(db, [existing_friend EXCEPT !.is_deleted = FALSE,
                                                  !.deleted_at = NULL]),
                   "ok", existing_friend.id)
         ELSE Resp(db, "DuplicateFriendship", 0)
    ELSE IF rev # {}
    THEN Resp(db, "DuplicateFriendship", 0)
    ELSE Resp(db \cup {NewFriendRow(id, d)}, "ok", id)

\* A create_friend_service whose reverse lookup leaves the soft-deleted edges out.
create_friend_reverse_active_only(db, d, id) ==
    LET same == SameDirection(db, d)
        rev == filter_deleted(ReverseDirection(db, d), FALSE) IN
    IF same # {}
    THEN LET existing_friend == first(same) IN
         IF existing_friend.is_deleted
         THEN Resp(Put(db, [existing_friend EXCEPT !.is_deleted = FALSE,
                                                  !.deleted_at = NULL]),
                   "ok", existing_friend.id)
         ELSE Resp(db, "DuplicateFriendship", 0)
    ELSE IF rev # {}
    THEN Resp(db, "ReverseDuplicate", 0)
    ELSE Resp(db \cup {NewFriendRow(id, d)}, "ok", id)

create_friend_service(db, d, id) ==
    LET same == SameDirection(db, d)
        rev == ReverseDirection(db, d) IN
    IF same # {}
    THEN LET existing_friend == first(same) IN
         IF existing_friend.is_deleted
         THEN Resp(Put(db, [existing_friend EXCEPT !.is_deleted = FALSE,
                                                  !.deleted_at = NULL]),
                   "ok", existing_friend.id)
         ELSE Resp(db, "DuplicateFriendship", 0)
    ELSE IF rev # {}
    THEN \* soft-deleted or not, the reverse edge refuses the request
         Resp(db, "ReverseDuplicate", 0)
    ELSE Resp(db \cup {NewFriendRow(id, d)}, "ok", id)

\* An update_friend_service that resets the flags the client did not send.
update_friend_reset_unset(db, friend_id, update_data) ==
    LET query == filter_deleted({r \in db : r.id = friend_id}, FALSE) IN
    IF query = {}
    THEN Resp(db, "NotFound", 0)
    ELSE LET friend == first(query)
             merged == [k \in DOMAIN friend |->
                           IF k \in DOMAIN update_data THEN update_data[k]
                           ELSE IF k \in FriendFlags THEN FALSE
                           ELSE friend[k]] IN
         Resp(Put(db, merged), "ok", friend_id)

update_friend_service(db, friend_id, update_data) ==
    LET query == filter_deleted({r \in db : r.id = friend_id}, FALSE) IN
    IF query = {}
    THEN Resp(db, "NotFound", 0)
    ELSE LET friend == first(query)
             merged == [k \in DOMAIN friend |->
                           IF k \in DOMAIN update_data THEN update_data[k]
                           ELSE friend[k]] IN
         Resp(Put(db, merged), "ok", friend_id)

\* A delete_friend_service whose lookup includes the soft-deleted edges.
delete_friend_reaches_deleted(db, friend_id, hard_delete, t) ==
    LET query == filter_deleted({r \in db : r.id = friend_id}, TRUE) IN
    IF query = {}
    THEN Resp(db, "NotFound", 0)
    ELSE LET friend == first(query) IN
         IF hard_delete
         THEN Resp(db \ {friend}, "ok", friend_id)
         ELSE Resp(Put(db, soft_delete(friend, t)), "ok", friend_id)

delete_friend_service(db, friend_id, hard_delete, t) ==
    LET query == filter_deleted({r \in db : r.id = friend_id}, FALSE) IN
    IF query = {}
    THEN Resp(db, "NotFound", 0)
    ELSE LET friend == first(query) IN
         IF hard_delete
         THEN Resp(db \ {friend}, "ok", friend_id)
         ELSE Resp(Put(db, soft_delete(friend, t)), "ok", friend_id)

\* A restore_friend_service that hands the edge back in pending status.
restore_friend_resets_status(db, friend_id) ==
    LET query == {r \in db : r.id = friend_id} IN
    IF query = {}
    THEN Resp(db, "NotFound", 0)
    ELSE LET friend == first(query) IN
         IF ~friend.is_deleted
         THEN Resp(db, "NotDeleted", 0)
         ELSE Resp(Put(db, [friend EXCEPT !.is_deleted = FALSE,
                                         !.deleted_at = NULL,
                                         !.accept = FALSE,
                                         !.decline = FALSE]),
                   "ok", friend_id)

restore_friend_service(db, friend_id) ==
    LET query == {r \in db : r.id = friend_id} IN
    IF query = {}
    THEN Resp(db, "NotFound", 0)
    ELSE LET friend == first(query) IN
         IF ~friend.is_deleted
         THEN Resp(db, "NotDeleted", 0)
         ELSE Resp(Put(db, [friend EXCEPT !.is_deleted = FALSE,
                                         !.deleted_at = NULL]),
                   "ok", friend_id)

(***************************************************************************)
(* The state after construction: empty tables.                             *)
(***************************************************************************)
NoCall == [op |-> "none", arg |-> <<>>, res |-> "none", ret |-> 0]

\* The tables of app/models.py besides friends, promo_codes and users
CatalogKinds == {"games", "arcade_machines", "parties", "payments"}

NoCatalog ==
    /\ tables = [k \in CatalogKinds |-> {}]
    /\ nextRowId = 1
    /\ kind = "none"

Call(op, arg, r) == [op |-> op, arg |-> arg, res |-> r.res, ret |-> r.ret]

Init ==
    /\ friends = {}
    /\ nextFriendId = 1
    /\ promos = {}
    /\ nextPromoId = 1
    /\ users = {}
    /\ nextUserId = 1
    /\ now = 0
    /\ last = NoCall
    /\ pc = <<>>
    /\ loc = <<>>
    /\ store0 = {}
    /\ NoCatalog

\* Time passes between two calls; last holds a call only in the state the call
\* ended in.
Tick ==
    /\ now < MaxNow
    /\ now' = now + 1
    /\ last' = NoCall
    /\ UNCHANGED <<friends, nextFriendId, promos, nextPromoId, users, nextUserId,
                   raceVars, catalogVars>>

(***************************************************************************)
(* The friendship services, each call one atomic unit of work.             *)
(***************************************************************************)
notFriends == <<promos, nextPromoId, users, nextUserId, now, raceVars, catalogVars>>

\* A fresh uuid is consumed when a row is inserted.
CreateFriendship ==
    \E d \in CreateRequests :
        LET r == create_friend_service(friends, d, nextFriendId) IN
        /\ (r.ret = nextFriendId) => nextFriendId <= MaxFriendRows
        /\ friends' = r.db
        /\ nextFriendId' = IF r.ret = nextFriendId THEN nextFriendId + 1
                           ELSE nextFriendId
        /\ last' = Call("create_friend", <<d.friend_from_id, d.friend_to_id>>, r)
        /\ UNCHANGED notFriends

\* The call is recorded with the id and the set of fields the patch sent.
UpdateFriendship ==
    \E id \in 1..MaxFriendRows, u \in UpdateRequests :
        LET r == update_friend_service(friends, id, u) IN
        /\ friends' = r.db
        /\ last' = Call("update_friend", <<id, DOMAIN u>>, r)
        /\ UNCHANGED <<nextFriendId, notFriends>>

DeleteFriendship ==
    \E id \in 1..MaxFriendRows, hard_delete \in BOOLEAN :
        LET r == delete_friend_service(friends, id, hard_delete, now) IN
        /\ friends' = r.db
        /\ last' = Call(IF hard_delete THEN "hard_delete_friend"
                        ELSE "delete_friend", <<id>>, r)
        /\ UNCHANGED <<nextFriendId, notFriends>>

RestoreFriendship ==
    \E id \in 1..MaxFriendRows :
        LET r == restore_friend_service(friends, id) IN
        /\ friends' = r.db
        /\ last' = Call("restore_friend", <<id>>, r)
        /\ UNCHANGED <<nextFriendId, notFriends>>

NextFriends ==
    \/ CreateFriendship
    \/ UpdateFriendship
    \/ DeleteFriendship
    \/ RestoreFriendship

SpecFriends == Init /\ [][NextFriends]_vars

(***************************************************************************)
(* app/schemas.py, app/models.py: PromoCodes and Users                     *)
(***************************************************************************)
\* str.upper() on the codes of the model
upper(code) ==
    CASE code = "save10" -> "SAVE10"
      [] code = "promo7" -> "PROMO7"
      [] OTHER -> code

\* PromoCodeBase.validate_code / PromoCodeUpdate.validate_code: the code is
\* stored upper-cased.
validate_code(v) == upper(v)

PromoFields == {"code", "nb_parties", "is_active", "expires_at", "max_uses"}

\* PromoCodes(**promo_code.model_dump()) with the column defaults: used_count 0
NewPromoRow(id, d) ==
    [id |-> id, code |-> d.code, nb_parties |-> d.nb_parties,
     is_active |-> d.is_active, expires_at |-> d.expires_at,
     used_count |-> 0, max_uses |-> d.max_uses,
     is_deleted |-> FALSE, deleted_at |-> NULL]

\* Users row: the columns the promo-code service reads and writes, with the
\* lifecycle columns (first_name, last_name, bar, publique_id are carried along
\* by every service and read by none).
NewUserRow(id, firebase_id, nb_ticket) ==
    [id |-> id, firebase_id |-> firebase_id, nb_ticket |-> nb_ticket,
     is_deleted |-> FALSE, deleted_at |-> NULL]

(***************************************************************************)
(* app/services/promoCode.py                                               *)
(***************************************************************************)
\* A create_promo_code_service that restores a soft-deleted code as it was.
create_promo_code_restore_only(db, d, id) ==
    LET query == {r \in db : r.code = d.code} IN
    IF query # {}
    THEN LET existing_code == first(query) IN
         IF existing_code.is_deleted
         THEN Resp(Put(db, [existing_code EXCEPT !.is_deleted = FALSE,
                                                !.deleted_at = NULL]),
                   "ok", existing_code.id)
         ELSE Resp(db, "CodeExists", 0)
    ELSE Resp(db \cup {NewPromoRow(id, d)}, "ok", id)

create_promo_code_service(db, d, id) ==
    LET query == {r \in db : r.code = d.code} IN
    IF query # {}
    THEN LET existing_code == first(query) IN
         IF existing_code.is_deleted
         THEN Resp(Put(db, [k \in DOMAIN existing_code |->
                              IF k \in PromoFields THEN d[k]
                              ELSE IF k = "is_deleted" THEN FALSE
                              ELSE IF k = "deleted_at" THEN NULL
                              ELSE existing_code[k]]),
                   "ok", existing_code.id)
         ELSE Resp(db, "CodeExists", 0)
    ELSE Resp(db \cup {NewPromoRow(id, d)}, "ok", id)

\* An update_promo_code_service whose lookup of the new code leaves the
\* soft-deleted codes out.
update_promo_code_active_only(db, promo_code_id, update_data) ==
    LET query == filter_deleted({r \in db : r.id = promo_code_id}, FALSE) IN
    IF query = {}
    THEN Resp(db, "NotFound", 0)
    ELSE LET promo_code == first(query) IN
         IF /\ "code" \in DOMAIN update_data
            /\ update_data["code"] # promo_code.code
            /\ filter_deleted({r \in db : r.code = update_data["code"]}, FALSE) # {}
         THEN Resp(db, "CodeExists", 0)
         ELSE Resp(Put(db, [k \in DOMAIN promo_code |->
                              IF k \in DOMAIN update_data THEN update_data[k]
                              ELSE promo_code[k]]),
                   "ok", promo_code_id)

update_promo_code_service(db, promo_code_id, update_data) ==
    LET query == filter_deleted({r \in db : r.id = promo_code_id}, FALSE) IN
    IF query = {}
    THEN Resp(db, "NotFound", 0)
    ELSE LET promo_code == first(query) IN
         IF /\ "code" \in DOMAIN update_data
            /\ update_data["code"] # promo_code.code
            /\ {r \in db : r.code = update_data["code"]} # {}
         THEN Resp(db, "CodeExists", 0)
         ELSE Resp(Put(db, [k \in DOMAIN promo_code |->
                              IF k \in DOMAIN update_data THEN update_data[k]
                              ELSE promo_code[k]]),
                   "ok", promo_code_id)

delete_promo_code_service(db, promo_code_id, hard_delete, t) ==
    LET query == filter_deleted({r \in db : r.id = promo_code_id}, FALSE) IN
    IF query = {}
    THEN Resp(db, "NotFound", 0)
    ELSE LET promo_code == first(query) IN
         IF hard_delete
         THEN Resp(db \ {promo_code}, "ok", promo_code_id)
         ELSE Resp(Put(db, soft_delete(promo_code, t)), "ok", promo_code_id)

restore_promo_code_service(db, promo_code_id) ==
    LET query == {r \in db : r.id = promo_code_id} IN
    IF query = {}
    THEN Resp(db, "NotFound", 0)
    ELSE LET promo_code == first(query) IN
         IF ~promo_code.is_deleted
         THEN Resp(db, "NotDeleted", 0)
         ELSE Resp(Put(db, [promo_code EXCEPT !.is_deleted = FALSE,
                                             !.deleted_at = NULL]),
                   "ok", promo_code_id)

\* The checks with the quota tested before the expiry.
CodeChecks_quota_first(promo_code, t) ==
    IF ~promo_code.is_active
    THEN "CodeInactive"
    ELSE IF /\ promo_code.max_uses # NULL /\ promo_code.max_uses # 0
            /\ promo_code.used_count >= promo_code.max_uses
    THEN "QuotaExceeded"
    ELSE IF promo_code.expires_at # NULL /\ promo_code.expires_at < t
    THEN "CodeExpired"
    ELSE "ok"

\* The checks of use_promo_code_service on the promo code it loaded, in the
\* order of the code: "ok" when none refuses.
CodeChecks(promo_code, t) ==
    IF ~promo_code.is_active
    THEN "CodeInactive"
    ELSE IF promo_code.expires_at # NULL /\ promo_code.expires_at < t
    THEN "CodeExpired"
    ELSE IF /\ promo_code.max_uses # NULL /\ promo_code.max_uses # 0
            /\ promo_code.used_count >= promo_code.max_uses
    THEN "QuotaExceeded"
    ELSE "ok"

\* The response of use_promo_code_service: both tables after the call, the
\* response and the nb_parties returned (0: none).
Used(pdb, udb, res, ret) == [promos |-> pdb, users |-> udb, res |-> res, ret |-> ret]

\* A use_promo_code_service that credits the user and leaves used_count alone.
use_promo_code_no_count(pdb, udb, code, user_id, t) ==
    LET query == filter_deleted({r \in pdb : r.code = upper(code)}, FALSE) IN
    IF query = {}
    THEN Used(pdb, udb, "InvalidCode", 0)
    ELSE LET promo_code == first(query)
             uquery == filter_deleted({u \in udb : u.id = user_id}, FALSE) IN
         IF CodeChecks(promo_code, t) # "ok"
         THEN Used(pdb, udb, CodeChecks(promo_code, t), 0)
         ELSE IF uquery = {}
         THEN Used(pdb, udb, "UserNotFound", 0)
         ELSE LET user == first(uquery) IN
              Used(pdb,
                   Put(udb, [user EXCEPT !.nb_ticket = @ + promo_code.nb_parties]),
                   "ok", promo_code.nb_parties)

\* A use_promo_code_service whose quota test is off by one (> for >=).
use_promo_code_off_by_one(pdb, udb, code, user_id, t) ==
    LET query == filter_deleted({r \in pdb : r.code = upper(code)}, FALSE) IN
    IF query = {}
    THEN Used(pdb, udb, "InvalidCode", 0)
    ELSE LET promo_code == first(query)
             uquery == filter_deleted({u \in udb : u.id = user_id}, FALSE)
             checks == IF ~promo_code.is_active THEN "CodeInactive"
                       ELSE IF promo_code.expires_at # NULL /\ promo_code.expires_at < t
                       THEN "CodeExpired"
                       ELSE IF /\ promo_code.max_uses # NULL
                               /\ promo_code.used_count > promo_code.max_uses
                       THEN "QuotaExceeded"
                       ELSE "ok" IN
         IF checks # "ok"
         THEN Used(pdb, udb, checks, 0)
         ELSE IF uquery = {}
         THEN Used(pdb, udb, "UserNotFound", 0)
         ELSE LET user == first(uquery) IN
              Used(Put(pdb, [promo_code EXCEPT !.used_count = @ + 1]),
                   Put(udb, [user EXCEPT !.nb_ticket = @ + promo_code.nb_parties]),
                   "ok", promo_code.nb_parties)

\* A use_promo_code_service that commits the count before it looks the user up.
use_promo_code_count_first(pdb, udb, code, user_id, t) ==
    LET query == filter_deleted({r \in pdb : r.code = upper(code)}, FALSE) IN
    IF query = {}
    THEN Used(pdb, udb, "InvalidCode", 0)
    ELSE LET promo_code == first(query)
             counted == Put(pdb, [promo_code EXCEPT !.used_count = @ + 1])
             uquery == filter_deleted({u \in udb : u.id = user_id}, FALSE) IN
         IF CodeChecks(promo_code, t) # "ok"
         THEN Used(pdb, udb, CodeChecks(promo_code, t), 0)
         ELSE IF uquery = {}
         THEN Used(counted, udb, "UserNotFound", 0)
         ELSE LET user == first(uquery) IN
              Used(counted,
                   Put(udb, [user EXCEPT !.nb_ticket = @ + promo_code.nb_parties]),
                   "ok", promo_code.nb_parties)

use_promo_code_service(pdb, udb, code, user_id, t) ==
    LET query == filter_deleted({r \in pdb : r.code = upper(code)}, FALSE) IN
    IF query = {}
    THEN Used(pdb, udb, "InvalidCode", 0)
    ELSE LET promo_code == first(query)
             uquery == filter_deleted({u \in udb : u.id = user_id}, FALSE) IN
         IF CodeChecks(promo_code, t) # "ok"
         THEN Used(pdb, udb, CodeChecks(promo_code, t), 0)
         ELSE IF uquery = {}
         THEN Used(pdb, udb, "UserNotFound", 0)
         ELSE LET user == first(uquery) IN
              \* both rows are written by the one db.commit()
              Used(Put(pdb, [promo_code EXCEPT !.used_count = @ + 1]),
                   Put(udb, [user EXCEPT !.nb_ticket = @ + promo_code.nb_parties]),
                   "ok", promo_code.nb_parties)

(***************************************************************************)
(* The promo-code services, each call one atomic unit of work, on a store  *)
(* that holds user 1 (active) and user 2 (soft-deleted); user 3 is no row. *)
(***************************************************************************)
\* The codes a client sends: one code in two spellings, so the table holds at
\* most one promo code; "nocode" in Redeem is a code no row has.
RawCodes == {"save10", "SAVE10"}

\* PromoCodeCreate as the validators leave it
PromoRequests ==
    [code : {validate_code(c) : c \in RawCodes}, nb_parties : {1, 2},
     is_active : BOOLEAN, expires_at : {NULL, 0}, max_uses : {NULL, 1, 2}]

\* PromoCodeUpdate after model_dump(exclude_unset=True): one field sent, or none
PromoPatches ==
    {<<>>}
    \cup {[k \in {"code"} |-> validate_code(c)] : c \in RawCodes}
    \cup {[k \in {"nb_parties"} |-> n] : n \in {1, 2}}
    \cup {[k \in {"is_active"} |-> b] : b \in BOOLEAN}
    \cup {[k \in {"expires_at"} |-> e] : e \in {NULL, 0}}
    \cup {[k \in {"max_uses"} |-> m] : m \in {NULL, 1, 2}}

UsersOfPromo ==
    {NewUserRow(1, "fb1", 0), soft_delete(NewUserRow(2, "fb2", 0), 0)}

InitPromo ==
    /\ friends = {}
    /\ nextFriendId = 1
    /\ promos = {}
    /\ nextPromoId = 1
    /\ users = UsersOfPromo
    /\ nextUserId = 3
    /\ now = 0
    /\ last = NoCall
    /\ pc = <<>>
    /\ loc = <<>>
    /\ store0 = {}
    /\ NoCatalog

notPromos == <<friends, nextFriendId, users, nextUserId, now, raceVars, catalogVars>>

CreatePromoCode ==
    \E d \in PromoRequests :
        LET r == create_promo_code_service(promos, d, nextPromoId) IN
        /\ (r.ret = nextPromoId) => nextPromoId <= MaxPromoRows
        /\ promos' = r.db
        /\ nextPromoId' = IF r.ret = nextPromoId THEN nextPromoId + 1
                          ELSE nextPromoId
        /\ last' = Call("create_promo", <<d.code, d>>, r)
        /\ UNCHANGED notPromos

UpdatePromoCode ==
    \E id \in 1..MaxPromoRows, u \in PromoPatches :
        LET r == update_promo_code_service(promos, id, u) IN
        /\ promos' = r.db
        /\ last' = Call("update_promo", <<id>>, r)
        /\ UNCHANGED <<nextPromoId, notPromos>>

DeletePromoCode ==
    \E id \in 1..MaxPromoRows, hard_delete \in BOOLEAN :
        LET r == delete_promo_code_service(promos, id, hard_delete, now) IN
        /\ promos' = r.db
        /\ last' = Call(IF hard_delete THEN "hard_delete_promo"
                        ELSE "delete_promo", <<id>>, r)
        /\ UNCHANGED <<nextPromoId, notPromos>>

RestorePromoCode ==
    \E id \in 1..MaxPromoRows :
        LET r == restore_promo_code_service(promos, id) IN
        /\ promos' = r.db
        /\ last' = Call("restore_promo", <<id>>, r)
        /\ UNCHANGED <<nextPromoId, notPromos>>

\* The counters are driven up to the bounds of the model.
Redeem ==
    \E code \in RawCodes \cup {"nocode"}, user_id \in 1..3 :
        LET r == use_promo_code_service(promos, users, code, user_id, now) IN
        /\ \A q \in r.promos : q.used_count <= MaxUsed
        /\ \A u \in r.users : u.nb_ticket <= MaxTicket
        /\ promos' = r.promos
        /\ users' = r.users
        /\ last' = Call("redeem", <<code, user_id>>, r)
        /\ UNCHANGED <<friends, nextFriendId, nextPromoId, nextUserId, now, raceVars,
                       catalogVars>>

NextPromo ==
    \/ CreatePromoCode
    \/ UpdatePromoCode
    \/ DeletePromoCode
    \/ RestorePromoCode
    \/ Redeem
    \/ Tick

SpecPromo == InitPromo /\ [][NextPromo]_vars

(***************************************************************************)
(* The promo-code services on two codes: the requests differ in the code   *)
(* alone, and the patches send the code or nothing.                        *)
(***************************************************************************)
TwoCodes == {"save10", "promo7"}

CodeRequests ==
    [code : {validate_code(c) : c \in TwoCodes}, nb_parties : {1},
     is_active : {TRUE}, expires_at : {NULL}, max_uses : {NULL}]

CodePatches == {<<>>} \cup {[k \in {"code"} |-> validate_code(c)] : c \in TwoCodes}

CreateNamedCode ==
    \E d \in CodeRequests :
        LET r == create_promo_code_service(promos, d, nextPromoId) IN
        /\ (r.ret = nextPromoId) => nextPromoId <= MaxPromoRows
        /\ promos' = r.db
        /\ nextPromoId' = IF r.ret = nextPromoId THEN nextPromoId + 1
                          ELSE nextPromoId
        /\ last' = Call("create_promo", <<d.code, d>>, r)
        /\ UNCHANGED notPromos

RenameCode ==
    \E id \in 1..MaxPromoRows, u \in CodePatches :
        LET r == update_promo_code_service(promos, id, u) IN
        /\ promos' = r.db
        /\ last' = Call("update_promo", <<id, u>>, r)
        /\ UNCHANGED <<nextPromoId, notPromos>>

NextPromoCodes ==
    \/ CreateNamedCode
    \/ RenameCode
    \/ DeletePromoCode
    \/ RestorePromoCode

SpecPromoCodes == Init /\ [][NextPromoCodes]_vars

(***************************************************************************)
(* app/routes/user.py, app/services/user.py                                *)
(***************************************************************************)
\* UserCreate: nb_ticket is an int with default 0 and no constraint.
UserRequests == [firebase_id : {"fb1", "fb2"}, nb_ticket : {-1, 0, 1}]

\* Users.firebase_id is unique=True: an INSERT or UPDATE that would give two
\* rows one firebase_id is refused.
UniqueFirebaseIdOk(db, row) ==
    ~\E r \in db : r.firebase_id = row.firebase_id /\ r.id # row.id

create_user_service(db, user, id) ==
    Resp(db \cup {NewUserRow(id, user.firebase_id, user.nb_ticket)}, "ok", id)

\* POST /users/: the firebase_id lookup applies no deletion filter.
create_new_user(db, user, id) ==
    IF {r \in db : r.firebase_id = user.firebase_id} # {}
    THEN Resp(db, "FirebaseIdExists", 0)
    ELSE create_user_service(db, user, id)

update_user_service(db, user_id, user_data) ==
    LET query == filter_deleted({r \in db : r.id = user_id}, FALSE) IN
    IF query = {}
    THEN Resp(db, "NotFound", 0)
    ELSE LET db_user == [first(query) EXCEPT !.nb_ticket = user_data.nb_ticket,
                                             !.firebase_id = user_data.firebase_id] IN
         IF UniqueFirebaseIdOk(db, db_user)
         THEN Resp(Put(db, db_user), "ok", user_id)
         ELSE Resp(db, "IntegrityError", 0)

delete_user_service(db, user_id, hard_delete, t) ==
    LET query == filter_deleted({r \in db : r.id = user_id}, FALSE) IN
    IF query = {}
    THEN Resp(db, "NotFound", 0)
    ELSE LET db_user == first(query) IN
         IF hard_delete
         THEN Resp(db \ {db_user}, "ok", user_id)
         ELSE Resp(Put(db, soft_delete(db_user, t)), "ok", user_id)

\* A restore_user that clears is_deleted and leaves deleted_at as it is.
restore_user_keeps_deleted_at(db, user_id) ==
    LET query == filter_deleted({r \in db : r.id = user_id}, TRUE) IN
    IF query = {}
    THEN Resp(db, "NotFound", 0)
    ELSE LET user == first(query) IN
         IF ~user.is_deleted
         THEN Resp(db, "NotDeleted", 0)
         ELSE Resp(Put(db, [user EXCEPT !.is_deleted = FALSE]), "ok", user_id)

\* POST /users/{user_id}/restore
restore_user(db, user_id) ==
    LET query == filter_deleted({r \in db : r.id = user_id}, TRUE) IN
    IF query = {}
    THEN Resp(db, "NotFound", 0)
    ELSE LET user == first(query) IN
         IF ~user.is_deleted
         THEN Resp(db, "NotDeleted", 0)
         ELSE Resp(Put(db, [user EXCEPT !.is_deleted = FALSE,
                                       !.deleted_at = NULL]),
                   "ok", user_id)

(***************************************************************************)
(* app/models.py, app/services/games.py, arcadeMachines.py, parties.py,    *)
(* payments.py. A row holds the lifecycle columns and one column of the    *)
(* request (the other columns of the request are carried along in the same *)
(* way, and no service reads them).                                        *)
(***************************************************************************)
\* Games.name is unique=True
NewGameRow(id, game) ==
    [id |-> id, name |-> game.name, is_deleted |-> FALSE, deleted_at |-> NULL]

NewArcadeMachineRow(id, machine) ==
    [id |-> id, name |-> machine.name, is_deleted |-> FALSE, deleted_at |-> NULL]

NewPartyRow(id, party) ==
    [id |-> id, done |-> party.done, is_deleted |-> FALSE, deleted_at |-> NULL]

\* Payments.session_stripe_token is unique=True
NewPaymentRow(id, payment) ==
    [id |-> id, session_stripe_token |-> payment.session_stripe_token,
     is_deleted |-> FALSE, deleted_at |-> NULL]

\* The loop "for key, value in update.dict(exclude_unset=True).items():
\* setattr(row, key, value)" of the four update services
SetAttrs(row, update) ==
    [k \in DOMAIN row |-> IF k \in DOMAIN update THEN update[k] ELSE row[k]]

create_game_service(db, game, id) ==
    IF \E r \in db : r.name = game.name
    THEN Resp(db, "IntegrityError", 0)
    ELSE Resp(db \cup {NewGameRow(id, game)}, "ok", id)

update_game_service(db, game_id, game_update) ==
    LET query == filter_deleted({r \in db : r.id = game_id}, FALSE) IN
    IF query = {}
    THEN Resp(db, "NotFound", 0)
    ELSE LET merged == SetAttrs(first(query), game_update) IN
         IF \E r \in db : r.name = merged.name /\ r.id # merged.id
         THEN Resp(db, "IntegrityError", 0)
         ELSE Resp(Put(db, merged), "ok", game_id)

\* A delete_game_service whose lookup includes the soft-deleted games.
delete_game_include_deleted(db, game_id, hard_delete, t) ==
    LET query == filter_deleted({r \in db : r.id = game_id}, TRUE) IN
    IF query = {}
    THEN Resp(db, "NotFound", 0)
    ELSE LET game == first(query) IN
         IF hard_delete
         THEN Resp(db \ {game}, "ok", game_id)
         ELSE Resp(Put(db, soft_delete(game, t)), "ok", game_id)

delete_game_service(db, game_id, hard_delete, t) ==
    LET query == filter_deleted({r \in db : r.id = game_id}, FALSE) IN
    IF query = {}
    THEN Resp(db, "NotFound", 0)
    ELSE LET game == first(query) IN
         IF hard_delete
         THEN Resp(db \ {game}, "ok", game_id)
         ELSE Resp(Put(db, soft_delete(game, t)), "ok", game_id)

restore_game_service(db, game_id) ==
    LET query == {r \in db : r.id = game_id} IN
    IF query = {}
    THEN Resp(db, "NotFound", 0)
    ELSE LET game == first(query) IN
         IF ~game.is_deleted
         THEN Resp(db, "NotDeleted", 0)
         ELSE Resp(Put(db, [game EXCEPT !.is_deleted = FALSE,
                                  !.deleted_at = NULL]),
                   "ok", game_id)

create_arcade_machine_service(db, machine, id) ==
    Resp(db \cup {NewArcadeMachineRow(id, machine)}, "ok", id)

\* An update_arcade_machine_service that reaches a soft-deleted machine and
\* hands it back active.
update_arcade_machine_undeletes(db, machine_id, machine_update) ==
    LET query == filter_deleted({r \in db : r.id = machine_id}, TRUE) IN
    IF query = {}
    THEN Resp(db, "NotFound", 0)
    ELSE LET merged == SetAttrs(first(query), machine_update) IN
         Resp(Put(db, [merged EXCEPT !.is_deleted = FALSE, !.deleted_at = NULL]),
              "ok", machine_id)

update_arcade_machine_service(db, machine_id, machine_update) ==
    LET query == filter_deleted({r \in db : r.id = machine_id}, FALSE) IN
    IF query = {}
    THEN Resp(db, "NotFound", 0)
    ELSE LET merged == SetAttrs(first(query), machine_update) IN
         Resp(Put(db, merged), "ok", machine_id)

delete_arcade_machine_service(db, machine_id, hard_delete, t) ==
    LET query == filter_deleted({r \in db : r.id = machine_id}, FALSE) IN
    IF query = {}
    THEN Resp(db, "NotFound", 0)
    ELSE LET machine == first(query) IN
         IF hard_delete
         THEN Resp(db \ {machine}, "ok", machine_id)
         ELSE Resp(Put(db, soft_delete(machine, t)), "ok", machine_id)

restore_arcade_machine_service(db, machine_id) ==
    LET query == {r \in db : r.id = machine_id} IN
    IF query = {}
    THEN Resp(db, "NotFound", 0)
    ELSE LET machine == first(query) IN
         IF ~machine.is_deleted
         THEN Resp(db, "NotDeleted", 0)
         ELSE Resp(Put(db, [machine EXCEPT !.is_deleted = FALSE,
                                  !.deleted_at = NULL]),
                   "ok", machine_id)

create_party_service(db, party, id) ==
    Resp(db \cup {NewPartyRow(id, party)}, "ok", id)

update_party_service(db, party_id, party_update) ==
    LET query == filter_deleted({r \in db : r.id = party_id}, FALSE) IN
    IF query = {}
    THEN Resp(db, "NotFound", 0)
    ELSE LET merged == SetAttrs(first(query), party_update) IN
         Resp(Put(db, merged), "ok", party_id)

delete_party_service(db, party_id, hard_delete, t) ==
    LET query == filter_deleted({r \in db : r.id = party_id}, FALSE) IN
    IF query = {}
    THEN Resp(db, "NotFound", 0)
    ELSE LET party == first(query) IN
         IF hard_delete
         THEN Resp(db \ {party}, "ok", party_id)
         ELSE Resp(Put(db, soft_delete(party, t)), "ok", party_id)

restore_party_service(db, party_id) ==
    LET query == {r \in db : r.id = party_id} IN
    IF query = {}
    THEN Resp(db, "NotFound", 0)
    ELSE LET party == first(query) IN
         IF ~party.is_deleted
         THEN Resp(db, "NotDeleted", 0)
         ELSE Resp(Put(db, [party EXCEPT !.is_deleted = FALSE,
                                  !.deleted_at = NULL]),
                   "ok", party_id)

create_payment_service(db, payment, id) ==
    IF \E r \in db : r.session_stripe_token = payment.session_stripe_token
    THEN Resp(db, "IntegrityError", 0)
    ELSE Resp(db \cup {NewPaymentRow(id, payment)}, "ok", id)

update_payment_service(db, payment_id, payment_update) ==
    LET query == filter_deleted({r \in db : r.id = payment_id}, FALSE) IN
    IF query = {}
    THEN Resp(db, "NotFound", 0)
    ELSE LET merged == SetAttrs(first(query), payment_update) IN
         IF \E r \in db : r.session_stripe_token = merged.session_stripe_token /\ r.id # merged.id
         THEN Resp(db, "IntegrityError", 0)
         ELSE Resp(Put(db, merged), "ok", payment_id)

delete_payment_service(db, payment_id, hard_delete, t) ==
    LET query == filter_deleted({r \in db : r.id = payment_id}, FALSE) IN
    IF query = {}
    THEN Resp(db, "NotFound", 0)
    ELSE LET payment == first(query) IN
         IF hard_delete
         THEN Resp(db \ {payment}, "ok", payment_id)
         ELSE Resp(Put(db, soft_delete(payment, t)), "ok", payment_id)

\* A restore_payment_service without the test that the payment is deleted.
restore_payment_no_check(db, payment_id) ==
    LET query == {r \in db : r.id = payment_id} IN
    IF query = {}
    THEN Resp(db, "NotFound", 0)
    ELSE LET payment == first(query) IN
         Resp(Put(db, [payment EXCEPT !.is_deleted = FALSE,
                                      !.deleted_at = NULL]),
              "ok", payment_id)

restore_payment_service(db, payment_id) ==
    LET query == {r \in db : r.id = payment_id} IN
    IF query = {}
    THEN Resp(db, "NotFound", 0)
    ELSE LET payment == first(query) IN
         IF ~payment.is_deleted
         THEN Resp(db, "NotDeleted", 0)
         ELSE Resp(Put(db, [payment EXCEPT !.is_deleted = FALSE,
                                  !.deleted_at = NULL]),
                   "ok", payment_id)

(***************************************************************************)
(* The read services of the seven tables: the response and the rows        *)
(* returned. They write nothing.                                           *)
(***************************************************************************)
Got(res, rows) == [res |-> res, rows |-> rows]

get_friend_by_id_service(db, friend_id, include_deleted) ==
    LET query == filter_deleted({r \in db : r.id = friend_id}, include_deleted) IN
    IF query = {}
    THEN Got("NotFound", {})
    ELSE Got("ok", {first(query)})

\* A get_all_friends_service that applies no deletion filter.
get_all_friends_unfiltered(db, include_deleted) ==
    Got("ok", db)

get_all_friends_service(db, include_deleted) ==
    Got("ok", filter_deleted(db, include_deleted))

\* An optional boolean filter is the set of the values it admits: {} for None
\* (no filter on the column), {TRUE} or {FALSE}.
get_friends_by_status_service(db, user_id, accepted, declined, include_deleted) ==
    LET query == {r \in db : r.friend_from_id = user_id \/ r.friend_to_id = user_id}
        by_accept == IF accepted # {} THEN {r \in query : r.accept \in accepted}
                     ELSE query
        by_decline == IF declined # {} THEN {r \in by_accept : r.decline \in declined}
                      ELSE by_accept IN
    Got("ok", filter_deleted(by_decline, include_deleted))

\* A get_pending_friends_service that returns every request received.
get_pending_friends_any_status(db, user_id, include_deleted) ==
    Got("ok", filter_deleted({r \in db : r.friend_to_id = user_id}, include_deleted))

get_pending_friends_service(db, user_id, include_deleted) ==
    LET query == {r \in db : /\ r.friend_to_id = user_id
                             /\ r.accept = FALSE
                             /\ r.decline = FALSE} IN
    Got("ok", filter_deleted(query, include_deleted))

\* GET /friends/status/{user_id}?accepted=true and GET /friends/pending/{user_id}
\* with the default include_deleted
FriendsOf(user_id) ==
    get_friends_by_status_service(friends, user_id, {TRUE}, {}, FALSE).rows

PendingReceived(user_id) ==
    get_pending_friends_service(friends, user_id, FALSE).rows

get_promo_code_by_id_service(db, promo_code_id, include_deleted) ==
    LET query == filter_deleted({r \in db : r.id = promo_code_id}, include_deleted) IN
    IF query = {}
    THEN Got("NotFound", {})
    ELSE Got("ok", {first(query)})

get_all_promo_codes_service(db, include_inactive, include_deleted) ==
    LET query == IF ~include_inactive THEN {r \in db : r.is_active = TRUE} ELSE db IN
    Got("ok", filter_deleted(query, include_deleted))

\* GET /users/{user_id}: the service returns None and the route raises the 404.
get_user_by_id(db, user_id, include_deleted) ==
    LET query == filter_deleted({r \in db : r.id = user_id}, include_deleted) IN
    IF query = {}
    THEN Got("NotFound", {})
    ELSE Got("ok", {first(query)})

get_users_service(db, include_deleted) ==
    Got("ok", filter_deleted(db, include_deleted))

get_game_by_id_service(db, game_id, include_deleted) ==
    LET query == filter_deleted({r \in db : r.id = game_id}, include_deleted) IN
    IF query = {}
    THEN Got("NotFound", {})
    ELSE Got("ok", {first(query)})

get_all_games_service(db, include_deleted) ==
    Got("ok", filter_deleted(db, include_deleted))

get_arcade_machine_by_id_service(db, machine_id, include_deleted) ==
    LET query == filter_deleted({r \in db : r.id = machine_id}, include_deleted) IN
    IF query = {}
    THEN Got("NotFound", {})
    ELSE Got("ok", {first(query)})

get_all_arcade_machines_service(db, include_deleted) ==
    Got("ok", filter_deleted(db, include_deleted))

get_party_by_id_service(db, party_id, include_deleted) ==
    LET query == filter_deleted({r \in db : r.id = party_id}, include_deleted) IN
    IF query = {}
    THEN Got("NotFound", {})
    ELSE Got("ok", {first(query)})

get_all_parties_service(db, include_deleted) ==
    Got("ok", filter_deleted(db, include_deleted))

get_payment_by_id_service(db, payment_id, include_deleted) ==
    LET query == filter_deleted({r \in db : r.id = payment_id}, include_deleted) IN
    IF query = {}
    THEN Got("NotFound", {})
    ELSE Got("ok", {first(query)})

get_all_payments_service(db, include_deleted) ==
    Got("ok", filter_deleted(db, include_deleted))

\* The read services a request on table k reaches; the list of promo codes is
\* asked with include_inactive.
get_record(k, db, id, include_deleted) ==
    CASE k = "friends" -> get_friend_by_id_service(db, id, include_deleted)
      [] k = "promo_codes" -> get_promo_code_by_id_service(db, id, include_deleted)
      [] k = "users" -> get_user_by_id(db, id, include_deleted)
      [] k = "games" -> get_game_by_id_service(db, id, include_deleted)
      [] k = "arcade_machines" -> get_arcade_machine_by_id_service(db, id, include_deleted)
      [] k = "parties" -> get_party_by_id_service(db, id, include_deleted)
      [] k = "payments" -> get_payment_by_id_service(db, id, include_deleted)

list_records(k, db, include_deleted) ==
    CASE k = "friends" -> get_all_friends_service(db, include_deleted)
      [] k = "promo_codes" -> get_all_promo_codes_service(db, TRUE, include_deleted)
      [] k = "users" -> get_users_service(db, include_deleted)
      [] k = "games" -> get_all_games_service(db, include_deleted)
      [] k = "arcade_machines" -> get_all_arcade_machines_service(db, include_deleted)
      [] k = "parties" -> get_all_parties_service(db, include_deleted)
      [] k = "payments" -> get_all_payments_service(db, include_deleted)

(***************************************************************************)
(* The lifecycle of one table at a time: Init draws the table (kind) whose *)
(* services the run calls, each call one atomic unit of work. The services *)
(* of a table read and write that table alone.                             *)
(***************************************************************************)
Kinds == {"friends", "promo_codes", "users"} \cup CatalogKinds

\* GameUpdate and PaymentUpdate declare their fields without a default, so a
\* request carries every field; ArcadeMachineUpdate and PartyUpdate fields are
\* optional and exclude_unset drops the ones not sent.
CatalogRequests(k) ==
    CASE k = "games" -> [name : {"pong", "tetris"}]
      [] k = "arcade_machines" -> [name : {"cab1", "cab2"}]
      [] k = "parties" -> [done : BOOLEAN]
      [] k = "payments" -> [session_stripe_token : {"tok1", "tok2"}]

CatalogPatches(k) ==
    IF k \in {"games", "payments"}
    THEN CatalogRequests(k)
    ELSE {<<>>} \cup CatalogRequests(k)

\* app.include_router(...): the service a request on table k reaches
create_record(k, db, d, id) ==
    CASE k = "games" -> create_game_service(db, d, id)
      [] k = "arcade_machines" -> create_arcade_machine_service(db, d, id)
      [] k = "parties" -> create_party_service(db, d, id)
      [] k = "payments" -> create_payment_service(db, d, id)

update_record(k, db, id, u) ==
    CASE k = "games" -> update_game_service(db, id, u)
      [] k = "arcade_machines" -> update_arcade_machine_service(db, id, u)
      [] k = "parties" -> update_party_service(db, id, u)
      [] k = "payments" -> update_payment_service(db, id, u)

delete_record(k, db, id, hard_delete, t) ==
    CASE k = "games" -> delete_game_service(db, id, hard_delete, t)
      [] k = "arcade_machines" -> delete_arcade_machine_service(db, id, hard_delete, t)
      [] k = "parties" -> delete_party_service(db, id, hard_delete, t)
      [] k = "payments" -> delete_payment_service(db, id, hard_delete, t)

restore_record(k, db, id) ==
    CASE k = "games" -> restore_game_service(db, id)
      [] k = "arcade_machines" -> restore_arcade_machine_service(db, id)
      [] k = "parties" -> restore_party_service(db, id)
      [] k = "payments" -> restore_payment_service(db, id)

InitLifecycle ==
    /\ friends = {}
    /\ nextFriendId = 1
    /\ promos = {}
    /\ nextPromoId = 1
    /\ users = {}
    /\ nextUserId = 1
    /\ now = 0
    /\ last = NoCall
    /\ pc = <<>>
    /\ loc = <<>>
    /\ store0 = {}
    /\ tables = [k \in CatalogKinds |-> {}]
    /\ nextRowId = 1
    /\ kind \in Kinds

notUsers == <<friends, nextFriendId, promos, nextPromoId, now, raceVars, catalogVars>>

CreateUser ==
    \E d \in UserRequests :
        LET r == create_new_user(users, d, nextUserId) IN
        /\ (r.ret = nextUserId) => nextUserId <= MaxUserRows
        /\ users' = r.db
        /\ nextUserId' = IF r.ret = nextUserId THEN nextUserId + 1 ELSE nextUserId
        /\ last' = Call("create_user", <<d.firebase_id, d.nb_ticket>>, r)
        /\ UNCHANGED notUsers

UpdateUser ==
    \E id \in 1..MaxUserRows, d \in UserRequests :
        LET r == update_user_service(users, id, d) IN
        /\ users' = r.db
        /\ last' = Call("update_user", <<id>>, r)
        /\ UNCHANGED <<nextUserId, notUsers>>

DeleteUser ==
    \E id \in 1..MaxUserRows, hard_delete \in BOOLEAN :
        LET r == delete_user_service(users, id, hard_delete, now) IN
        /\ users' = r.db
        /\ last' = Call(IF hard_delete THEN "hard_delete_user"
                        ELSE "delete_user", <<id>>, r)
        /\ UNCHANGED <<nextUserId, notUsers>>

RestoreUser ==
    \E id \in 1..MaxUserRows :
        LET r == restore_user(users, id) IN
        /\ users' = r.db
        /\ last' = Call("restore_user", <<id>>, r)
        /\ UNCHANGED <<nextUserId, notUsers>>

notCatalog == <<friends, nextFriendId, promos, nextPromoId, users, nextUserId, now,
                raceVars, kind>>

CreateRecord ==
    \E d \in CatalogRequests(kind) :
        LET r == create_record(kind, tables[kind], d, nextRowId) IN
        /\ (r.ret = nextRowId) => nextRowId <= MaxRows
        /\ tables' = [tables EXCEPT ![kind] = r.db]
        /\ nextRowId' = IF r.ret = nextRowId THEN nextRowId + 1 ELSE nextRowId
        /\ last' = Call("create_record", <<d>>, r)
        /\ UNCHANGED notCatalog

UpdateRecord ==
    \E id \in 1..MaxRows, u \in CatalogPatches(kind) :
        LET r == update_record(kind, tables[kind], id, u) IN
        /\ tables' = [tables EXCEPT ![kind] = r.db]
        /\ last' = Call("update_record", <<id>>, r)
        /\ UNCHANGED <<nextRowId, notCatalog>>

DeleteRecord ==
    \E id \in 1..MaxRows, hard_delete \in BOOLEAN :
        LET r == delete_record(kind, tables[kind], id, hard_delete, now) IN
        /\ tables' = [tables EXCEPT ![kind] = r.db]
        /\ last' = Call(IF hard_delete THEN "hard_delete_record"
                        ELSE "delete_record", <<id>>, r)
        /\ UNCHANGED <<nextRowId, notCatalog>>

RestoreRecord ==
    \E id \in 1..MaxRows :
        LET r == restore_record(kind, tables[kind], id) IN
        /\ tables' = [tables EXCEPT ![kind] = r.db]
        /\ last' = Call("restore_record", <<id>>, r)
        /\ UNCHANGED <<nextRowId, notCatalog>>

NextLifecycle ==
    \/ kind = "friends" /\ CreateFriendship
    \/ kind = "friends" /\ UpdateFriendship
    \/ kind = "friends" /\ DeleteFriendship
    \/ kind = "friends" /\ RestoreFriendship
    \/ kind = "promo_codes" /\ CreatePromoCode
    \/ kind = "promo_codes" /\ UpdatePromoCode
    \/ kind = "promo_codes" /\ DeletePromoCode
    \/ kind = "promo_codes" /\ RestorePromoCode
    \/ kind = "users" /\ CreateUser
    \/ kind = "users" /\ UpdateUser
    \/ kind = "users" /\ DeleteUser
    \/ kind = "users" /\ RestoreUser
    \/ kind \in CatalogKinds /\ CreateRecord
    \/ kind \in CatalogKinds /\ UpdateRecord
    \/ kind \in CatalogKinds /\ DeleteRecord
    \/ kind \in CatalogKinds /\ RestoreRecord

SpecLifecycle == InitLifecycle /\ [][NextLifecycle]_vars

\* The next fresh uuid of the table the run works on
NextId ==
    CASE kind = "friends" -> nextFriendId
      [] kind = "promo_codes" -> nextPromoId
      [] kind = "users" -> nextUserId
      [] OTHER -> nextRowId

\* The table the run works on
Records ==
    CASE kind = "friends" -> friends
      [] kind = "promo_codes" -> promos
      [] kind = "users" -> users
      [] kind \in CatalogKinds -> tables[kind]
      [] OTHER -> {}

(***************************************************************************)
(* Every service of the three groups in one specification: a run draws a   *)
(* table and calls its services; a run on promo_codes starts from the      *)
(* users of InitPromo, at some time of the clock, and redeems codes too.   *)
(***************************************************************************)
InitServices ==
    /\ friends = {}
    /\ nextFriendId = 1
    /\ promos = {}
    /\ nextPromoId = 1
    /\ kind \in Kinds
    /\ users = IF kind = "promo_codes" THEN UsersOfPromo ELSE {}
    /\ nextUserId = IF kind = "promo_codes" THEN 3 ELSE 1
    /\ now \in IF kind = "promo_codes" THEN 0..MaxNow ELSE {0}
    /\ last = NoCall
    /\ pc = <<>>
    /\ loc = <<>>
    /\ store0 = {}
    /\ tables = [k \in CatalogKinds |-> {}]
    /\ nextRowId = 1

NextServices ==
    \/ NextLifecycle
    \/ kind = "promo_codes" /\ Redeem

SpecServices == InitServices /\ [][NextServices]_vars

(***************************************************************************)
(* Friendship properties, under SpecFriends.                               *)
(***************************************************************************)
Edge(r, a, b) == r.friend_from_id = a /\ r.friend_to_id = b

ActiveBetween(db, a, b) ==
    {r \in db : ~r.is_deleted /\ (Edge(r, a, b) \/ Edge(r, b, a))}

CreatedFriend(a, b) == last'.op = "create_friend" /\ last'.arg = <<a, b>>

\* C1: whatever atomic create, update, delete (soft or hard) and restore calls
\* ran, any two users have at most one active edge between them, both
\* directions counted.
C1_OneActiveEdgePerPair ==
    \A a \in UserIds, b \in UserIds : Cardinality(ActiveBetween(friends, a, b)) <= 1

\* A restore brought an edge between A and B back while a second row exists.
C1_Witness ==
    /\ last.op = "restore_friend" /\ last.res = "ok"
    /\ \E r \in ActiveBetween(friends, 1, 2) : r.id = last.ret
    /\ Cardinality(friends) = 2

\* C8: while an edge (A,B) is active, CreateFriendship(A,B) is refused as
\* DuplicateFriendship and, for B another user, CreateFriendship(B,A) as
\* ReverseDuplicate; neither call changes the table.
C8_DuplicateAndReverseRefused ==
    [][\A r \in friends :
          ~r.is_deleted =>
             /\ CreatedFriend(r.friend_from_id, r.friend_to_id)
                  => last'.res = "DuplicateFriendship" /\ friends' = friends
             /\ (r.friend_from_id # r.friend_to_id
                  /\ CreatedFriend(r.friend_to_id, r.friend_from_id))
                  => last'.res = "ReverseDuplicate" /\ friends' = friends]_vars

\* A create call was refused as a duplicate of an active edge.
C8_Witness ==
    /\ last.op = "create_friend" /\ last.res = "DuplicateFriendship"
    /\ \E r \in friends : ~r.is_deleted /\ last.arg = <<r.friend_from_id, r.friend_to_id>>

\* C9: CreateFriendship(A,B) over a soft-deleted edge (A,B) succeeds and returns
\* that edge, same id, with is_deleted false and deleted_at unset; the table
\* gains no row.
C9_RecreateRestoresSameEdge ==
    [][\A r \in friends :
          (r.is_deleted /\ CreatedFriend(r.friend_from_id, r.friend_to_id)) =>
             /\ last'.res = "ok"
             /\ last'.ret = r.id
             /\ \E q \in friends' : /\ q.id = r.id
                                    /\ Edge(q, r.friend_from_id, r.friend_to_id)
                                    /\ q.is_deleted = FALSE
                                    /\ q.deleted_at = NULL
             /\ Cardinality(friends') = Cardinality(friends)]_vars

\* A create call returned a row that was inserted before the latest insert.
C9_Witness ==
    /\ last.op = "create_friend" /\ last.res = "ok"
    /\ last.ret < nextFriendId - 1
    /\ \E r \in friends : r.id = last.ret /\ ~r.is_deleted /\ r.deleted_at = NULL

\* C10: while an edge (A,B) between two users exists, active or soft-deleted,
\* CreateFriendship(B,A) is refused as ReverseDuplicate and the table is left as
\* it was (a soft-deleted (A,B) stays soft-deleted).
C10_ReverseRefusedWhateverDeletion ==
    [][\A r \in friends :
          (r.friend_from_id # r.friend_to_id
             /\ CreatedFriend(r.friend_to_id, r.friend_from_id)) =>
                last'.res = "ReverseDuplicate" /\ friends' = friends]_vars

\* A create call in the reverse direction of a soft-deleted edge was refused.
C10_Witness ==
    /\ last.op = "create_friend" /\ last.res = "ReverseDuplicate"
    /\ \E r \in friends : r.is_deleted /\ last.arg = <<r.friend_to_id, r.friend_from_id>>

\* C11: the edge a successful CreateFriendship returns is pending (accept and
\* decline both false), whatever flags the request carried, when the call
\* inserted a row and when it restored a soft-deleted one.
C11_CreateReturnsPending ==
    (last.op = "create_friend" /\ last.res = "ok") =>
        \A r \in friends : r.id = last.ret => (~r.accept /\ ~r.decline)

(***************************************************************************)
(* Two create_friend_service requests for the pair {A,B}, interleaved.     *)
(* Each request has its own session (get_db): the rows it loaded stay as   *)
(* it read them, and its INSERT or UPDATE reaches the table at db.commit().*)
(* A request runs: the same-direction query; the reverse-direction query;  *)
(* then the commit of the INSERT, or of the UPDATE that restores.          *)
(***************************************************************************)
Reqs == {1, 2}

PlainRequest(a, b) ==
    [friend_from_id |-> a, friend_to_id |-> b,
     accept |-> FALSE, decline |-> FALSE, delete |-> FALSE]

\* The stores a race starts from: the empty table, the table after
\* CreateFriendship(A,B), and that table after the edge is soft-deleted.
StoreCreated == create_friend_service({}, PlainRequest(1, 2), 1).db

StoreSoftDeleted == delete_friend_service(StoreCreated, 1, FALSE, 0).db

RaceStores == {{}, StoreCreated, StoreSoftDeleted}

Running(d) == [d |-> d, row |-> {}, res |-> "none", ret |-> 0]

Finished(l, res, ret) == [l EXCEPT !.res = res, !.ret = ret]

InitCreateRace ==
    /\ friends \in RaceStores
    /\ nextFriendId = IF friends = {} THEN 1 ELSE 2
    /\ promos = {}
    /\ nextPromoId = 1
    /\ users = {}
    /\ nextUserId = 1
    /\ now = 0
    /\ last = NoCall
    /\ pc = [p \in Reqs |-> "lookup_same"]
    /\ loc \in [Reqs -> {Running(PlainRequest(1, 2)), Running(PlainRequest(2, 1))}]
    /\ store0 = friends
    /\ NoCatalog

notRaceFriends == <<promos, nextPromoId, users, nextUserId, now, last, store0,
                    catalogVars>>

\* friends.py:24-40: the same-direction query and the branch on its result
LookupSame(p) ==
    /\ pc[p] = "lookup_same"
    /\ LET same == SameDirection(friends, loc[p].d) IN
       IF same = {}
       THEN /\ pc' = [pc EXCEPT ![p] = "lookup_reverse"]
            /\ loc' = loc
       ELSE IF first(same).is_deleted
       THEN /\ pc' = [pc EXCEPT ![p] = "restore"]
            /\ loc' = [loc EXCEPT ![p].row = same]
       ELSE /\ pc' = [pc EXCEPT ![p] = "done"]
            /\ loc' = [loc EXCEPT ![p] = Finished(@, "DuplicateFriendship", 0)]
    /\ UNCHANGED <<friends, nextFriendId, notRaceFriends>>

\* friends.py:42-64: the reverse-direction query and the branch on its result
LookupReverse(p) ==
    /\ pc[p] = "lookup_reverse"
    /\ IF ReverseDirection(friends, loc[p].d) = {}
       THEN /\ pc' = [pc EXCEPT ![p] = "insert"]
            /\ loc' = loc
       ELSE /\ pc' = [pc EXCEPT ![p] = "done"]
            /\ loc' = [loc EXCEPT ![p] = Finished(@, "ReverseDuplicate", 0)]
    /\ UNCHANGED <<friends, nextFriendId, notRaceFriends>>

\* friends.py:66-71: db.add, db.commit. The INSERT is refused by the unique
\* constraint on (friend_from_id, friend_to_id); the IntegrityError is not
\* caught and the request fails with it.
InsertFriend(p) ==
    /\ pc[p] = "insert"
    /\ LET new_friend == NewFriendRow(nextFriendId, loc[p].d) IN
       IF UniqueFriendshipOk(friends, new_friend)
       THEN /\ friends' = friends \cup {new_friend}
            /\ nextFriendId' = nextFriendId + 1
            /\ loc' = [loc EXCEPT ![p] = Finished(@, "ok", new_friend.id)]
       ELSE /\ UNCHANGED <<friends, nextFriendId>>
            /\ loc' = [loc EXCEPT ![p] = Finished(@, "IntegrityError", 0)]
    /\ pc' = [pc EXCEPT ![p] = "done"]
    /\ UNCHANGED notRaceFriends

\* friends.py:33-38: the UPDATE of is_deleted and deleted_at on the row loaded,
\* by primary key, then the refresh. (No request of this race removes a row.)
RestoreLoaded(p) ==
    /\ pc[p] = "restore"
    /\ LET id == first(loc[p].row).id
           current == first({r \in friends : r.id = id}) IN
       /\ friends' = Put(friends, [current EXCEPT !.is_deleted = FALSE,
                                                 !.deleted_at = NULL])
       /\ loc' = [loc EXCEPT ![p] = Finished(@, "ok", id)]
    /\ pc' = [pc EXCEPT ![p] = "done"]
    /\ UNCHANGED <<nextFriendId, notRaceFriends>>

NextCreateRace ==
    \E p \in Reqs :
        \/ LookupSame(p)
        \/ LookupReverse(p)
        \/ InsertFriend(p)
        \/ RestoreLoaded(p)

SpecCreateRace == InitCreateRace /\ [][NextCreateRace]_vars

AllDone == \A p \in Reqs : pc[p] = "done"

\* The refusals of a create call: the two 400 responses of the service and,
\* counted with them, the refusal of the INSERT by the storage constraint.
Conflicts == {"DuplicateFriendship", "ReverseDuplicate", "IntegrityError"}

\* C2: two interleaved CreateFriendship calls for a pair {A,B} that has no edge
\* yet, in the same or in opposite directions: exactly one succeeds, the other
\* is refused with a Conflict, and at most one active edge between A and B is
\* there afterwards.
C2_ExactlyOneCreateWins ==
    (AllDone /\ store0 = {}) =>
        /\ \E p \in Reqs, q \in Reqs :
              /\ p # q
              /\ loc[p].res = "ok"
              /\ loc[q].res \in Conflicts
        /\ Cardinality(ActiveBetween(friends, 1, 2)) <= 1

(***************************************************************************)
(* Promo-code properties, under SpecPromo.                                 *)
(***************************************************************************)
\* C3: whatever atomic create (re-creation of a soft-deleted code included),
\* update, delete, restore and redeem calls ran, every promo code has no
\* max_uses or used_count <= max_uses.
C3_UsedCountWithinMaxUses ==
    \A r \in promos : r.max_uses = NULL \/ r.used_count <= r.max_uses

\* This step credited user u with the tickets of code c and counted the use.
Credited(c, u) ==
    /\ users' = Put(users, [u EXCEPT !.nb_ticket = @ + c.nb_parties])
    /\ promos' = Put(promos, [c EXCEPT !.used_count = @ + 1])

UsedCountChanged ==
    \E c \in promos, q \in promos' : q.id = c.id /\ q.used_count # c.used_count

\* C6: a successful Redeem adds nb_parties to the user's nb_ticket and 1 to the
\* code's used_count in the same step, a refused Redeem changes neither table,
\* and no step changes a ticket balance without a used_count or a used_count
\* without a ticket balance.
C6_RedeemAllOrNothing ==
    [][LET credited == \E c \in promos, u \in users : Credited(c, u) IN
       /\ (last'.op = "redeem" /\ last'.res = "ok") => credited
       /\ (last'.op = "redeem" /\ last'.res # "ok")
            => promos' = promos /\ users' = users
       /\ (users' # users) => credited
       /\ UsedCountChanged => credited]_vars

\* A Redeem succeeded: the code counts a use and the user holds its tickets.
C6_Witness ==
    /\ last.op = "redeem" /\ last.res = "ok"
    /\ \E c \in promos, u \in users :
          c.used_count = 1 /\ u.nb_ticket = c.nb_parties /\ last.ret = c.nb_parties

\* Redeem(code, user) addresses the code c and the user u, both usable.
Redeemable(c, u) ==
    /\ ~c.is_deleted /\ c.is_active
    /\ (c.expires_at = NULL \/ c.expires_at >= now)
    /\ ~u.is_deleted
    /\ last'.op = "redeem"
    /\ upper(last'.arg[1]) = c.code
    /\ last'.arg[2] = u.id

\* C7: on an active, unexpired, undeleted code with max_uses = m and an active
\* user, Redeem succeeds exactly while used_count < m, adding nb_parties to
\* nb_ticket and 1 to used_count, and is refused with QuotaExceeded from
\* used_count = m on, changing neither: of successive calls from used_count = 0
\* the first m succeed and every later one fails.
C7_FirstMaxUsesRedeemsSucceed ==
    [][\A c \in promos, u \in users :
          (c.max_uses # NULL /\ Redeemable(c, u)) =>
             IF c.used_count < c.max_uses
             THEN last'.res = "ok" /\ Credited(c, u)
             ELSE /\ last'.res = "QuotaExceeded"
                  /\ promos' = promos /\ users' = users]_vars

\* After two credited uses of a code with max_uses = 2, a Redeem was refused.
C7_Witness ==
    /\ last.op = "redeem" /\ last.res = "QuotaExceeded"
    /\ \E c \in promos, u \in users :
          /\ c.max_uses = 2 /\ c.used_count = 2
          /\ ~c.is_deleted /\ upper(last.arg[1]) = c.code
          /\ u.id = last.arg[2] /\ u.nb_ticket = 2 * c.nb_parties

\* C18: CreatePromoCode with a code that a soft-deleted record holds succeeds,
\* returns that record's id and leaves that record with the request's code,
\* nb_parties, is_active, expires_at and max_uses, is_deleted false and
\* deleted_at unset (its other columns as they were), adding no record; with a
\* code that an active record holds it is refused as a conflict and the table
\* is left as it was.
C18_RecreateOverwritesDeletedCode ==
    [][\A x \in promos :
          LET d == last'.arg[2] IN
          (last'.op = "create_promo" /\ x.code = d.code) =>
             IF x.is_deleted
             THEN /\ last'.res = "ok"
                  /\ last'.ret = x.id
                  /\ promos' = (promos \ {x}) \cup
                        {[x EXCEPT !.code = d.code, !.nb_parties = d.nb_parties,
                                   !.is_active = d.is_active,
                                   !.expires_at = d.expires_at,
                                   !.max_uses = d.max_uses,
                                   !.is_deleted = FALSE, !.deleted_at = NULL]}
                  /\ Cardinality(promos') = Cardinality(promos)
             ELSE /\ last'.res = "CodeExists"
                  /\ promos' = promos]_vars

\* A create call returned a code that had been used before: the record of a
\* soft-deleted code, now active with the fields of the request.
C18_Witness ==
    /\ last.op = "create_promo" /\ last.res = "ok"
    /\ \E x \in promos :
          /\ x.id = last.ret /\ x.used_count > 0
          /\ ~x.is_deleted /\ x.deleted_at = NULL
          /\ x.nb_parties = last.arg[2].nb_parties
          /\ x.max_uses = last.arg[2].max_uses

\* The failure conditions of a Redeem call in the state before it, by name
Unknown(code) == ~\E c \in promos : ~c.is_deleted /\ c.code = upper(code)

Inactive(code) == \E c \in promos : ~c.is_deleted /\ c.code = upper(code) /\ ~c.is_active

Expired(code) ==
    \E c \in promos : /\ ~c.is_deleted /\ c.code = upper(code)
                      /\ c.expires_at # NULL /\ c.expires_at < now

Exhausted(code) ==
    \E c \in promos : /\ ~c.is_deleted /\ c.code = upper(code)
                      /\ c.max_uses # NULL /\ c.used_count >= c.max_uses

NoUser(user_id) == ~\E u \in users : ~u.is_deleted /\ u.id = user_id

\* C23: a Redeem call reports the first failure condition that applies, in the
\* order InvalidCode, CodeInactive, CodeExpired, QuotaExceeded, UserNotFound,
\* and succeeds when none applies; an expired code fails with CodeExpired
\* whatever its remaining quota.
C23_RedeemReportsFirstFailure ==
    [][last'.op = "redeem" =>
          LET code == last'.arg[1]
              user_id == last'.arg[2] IN
          last'.res = IF Unknown(code) THEN "InvalidCode"
                      ELSE IF Inactive(code) THEN "CodeInactive"
                      ELSE IF Expired(code) THEN "CodeExpired"
                      ELSE IF Exhausted(code) THEN "QuotaExceeded"
                      ELSE IF NoUser(user_id) THEN "UserNotFound"
                      ELSE "ok"]_vars

\* A redeem of an expired code whose quota is used up, by a user that is
\* soft-deleted or unknown, was refused as CodeExpired.
C23_Witness ==
    /\ last.op = "redeem" /\ last.res = "CodeExpired"
    /\ Exhausted(last.arg[1])
    /\ NoUser(last.arg[2])

(***************************************************************************)
(* Two use_promo_code_service requests for one code, interleaved. Each     *)
(* request has its own session: it loads the promo code and runs the       *)
(* checks; it loads the user; then db.commit() writes nb_ticket and        *)
(* used_count as computed from the rows it loaded (UPDATE ... SET          *)
(* nb_ticket = <value>, used_count = <value>, by primary key).             *)
(***************************************************************************)
RedeemingCode ==
    {create_promo_code_service({}, d, 1).db :
        d \in {q \in PromoRequests : q.is_active /\ q.expires_at = NULL}}

RedeemingUsers == {NewUserRow(1, "fb1", 0), NewUserRow(2, "fb2", 0)}

Redeeming(code, user_id) ==
    [code |-> code, user_id |-> user_id, row |-> {}, urow |-> {},
     res |-> "none", ret |-> 0]

InitRedeemRace ==
    /\ friends = {}
    /\ nextFriendId = 1
    /\ promos \in RedeemingCode
    /\ nextPromoId = 2
    /\ users = RedeemingUsers
    /\ nextUserId = 3
    /\ now = 0
    /\ last = NoCall
    /\ pc = [p \in Reqs |-> "load_code"]
    /\ loc \in [Reqs -> {Redeeming("save10", u) : u \in {1, 2}}]
    /\ store0 = promos
    /\ NoCatalog

notRedeemRace == <<friends, nextFriendId, nextPromoId, nextUserId, now, last, store0,
                   catalogVars>>

\* promoCode.py:241-259: the promo-code query and the checks on the row loaded
LoadCode(p) ==
    /\ pc[p] = "load_code"
    /\ LET query == filter_deleted({r \in promos : r.code = upper(loc[p].code)}, FALSE) IN
       IF query = {}
       THEN /\ pc' = [pc EXCEPT ![p] = "done"]
            /\ loc' = [loc EXCEPT ![p] = Finished(@, "InvalidCode", 0)]
       ELSE IF CodeChecks(first(query), now) # "ok"
       THEN /\ pc' = [pc EXCEPT ![p] = "done"]
            /\ loc' = [loc EXCEPT ![p] = Finished(@, CodeChecks(first(query), now), 0)]
       ELSE /\ pc' = [pc EXCEPT ![p] = "load_user"]
            /\ loc' = [loc EXCEPT ![p].row = query]
    /\ UNCHANGED <<promos, users, notRedeemRace>>

\* promoCode.py:261-267: the user query
LoadUser(p) ==
    /\ pc[p] = "load_user"
    /\ LET uquery == filter_deleted({u \in users : u.id = loc[p].user_id}, FALSE) IN
       IF uquery = {}
       THEN /\ pc' = [pc EXCEPT ![p] = "done"]
            /\ loc' = [loc EXCEPT ![p] = Finished(@, "UserNotFound", 0)]
       ELSE /\ pc' = [pc EXCEPT ![p] = "commit"]
            /\ loc' = [loc EXCEPT ![p].urow = uquery]
    /\ UNCHANGED <<promos, users, notRedeemRace>>

\* promoCode.py:269-282: the two assignments on the loaded rows and the commit
\* that writes both columns. (No request of this race removes a row.)
CommitRedeem(p) ==
    /\ pc[p] = "commit"
    /\ LET promo_code == first(loc[p].row)
           user == first(loc[p].urow)
           stored_code == first({r \in promos : r.id = promo_code.id})
           stored_user == first({u \in users : u.id = user.id}) IN
       /\ users' = Put(users, [stored_user EXCEPT
                                  !.nb_ticket = user.nb_ticket + promo_code.nb_parties])
       /\ promos' = Put(promos, [stored_code EXCEPT
                                    !.used_count = promo_code.used_count + 1])
       /\ loc' = [loc EXCEPT ![p] = Finished(@, "ok", promo_code.nb_parties)]
    /\ pc' = [pc EXCEPT ![p] = "done"]
    /\ UNCHANGED notRedeemRace

NextRedeemRace ==
    \E p \in Reqs :
        \/ LoadCode(p)
        \/ LoadUser(p)
        \/ CommitRedeem(p)

SpecRedeemRace == InitRedeemRace /\ [][NextRedeemRace]_vars

Succeeded == {p \in Reqs : loc[p].res = "ok"}

\* C4: on a code with max_uses = 1 and used_count = 0, two interleaved Redeem
\* calls end with exactly one success and one QuotaExceeded, and used_count 1.
C4_OneRedeemWinsLastUse ==
    (AllDone /\ \A c \in store0 : c.max_uses = 1) =>
        /\ \E p \in Reqs, q \in Reqs :
              /\ p # q
              /\ loc[p].res = "ok"
              /\ loc[q].res = "QuotaExceeded"
        /\ \A c \in promos : c.used_count = 1

\* C5: after two interleaved Redeem calls, each user holds its initial tickets
\* (none) plus nb_parties for each of its successful calls, and the code's
\* used_count is the number of successful calls.
C5_EverySuccessCreditedOnce ==
    AllDone =>
        \A c \in promos :
            /\ c.used_count = Cardinality(Succeeded)
            /\ \A u \in users :
                  u.nb_ticket =
                     c.nb_parties * Cardinality({p \in Succeeded : loc[p].user_id = u.id})

\* The two requests of the race run one after the other, first before second,
\* each as one atomic call, from the store the race started from: the store
\* and the responses this serial execution ends with are the ones of the race.
SerialRedeem(first_req, second_req) ==
    LET r1 == use_promo_code_service(store0, RedeemingUsers, loc[first_req].code,
                                     loc[first_req].user_id, now)
        r2 == use_promo_code_service(r1.promos, r1.users, loc[second_req].code,
                                     loc[second_req].user_id, now) IN
    /\ promos = r2.promos
    /\ users = r2.users
    /\ loc[first_req].res = r1.res /\ loc[first_req].ret = r1.ret
    /\ loc[second_req].res = r2.res /\ loc[second_req].ret = r2.ret

\* C22: two interleaved Redeem calls, each a read step followed by a
\* conditional write step, end in a store and with responses that one of the
\* two serial executions of the same calls produces.
C22_RaceEndsAsSomeSerialRun ==
    AllDone => \E p \in Reqs, q \in Reqs : p # q /\ SerialRedeem(p, q)

(***************************************************************************)
(* Three use_promo_code_service requests for one code, interleaved: the    *)
(* steps of SpecRedeemRace, with one more request.                         *)
(***************************************************************************)
Reqs3 == {1, 2, 3}

InitRedeemRace3 ==
    /\ friends = {}
    /\ nextFriendId = 1
    /\ promos \in RedeemingCode
    /\ nextPromoId = 2
    /\ users = RedeemingUsers
    /\ nextUserId = 3
    /\ now = 0
    /\ last = NoCall
    /\ pc = [p \in Reqs3 |-> "load_code"]
    /\ loc \in [Reqs3 -> {Redeeming("save10", u) : u \in {1, 2}}]
    /\ store0 = promos
    /\ NoCatalog

NextRedeemRace3 ==
    \E p \in Reqs3 :
        \/ LoadCode(p)
        \/ LoadUser(p)
        \/ CommitRedeem(p)

SpecRedeemRace3 == InitRedeemRace3 /\ [][NextRedeemRace3]_vars

\* C19: a promo code record enters the table with used_count 0 and no step
\* lowers the used_count of a record: not a create, update, delete, restore
\* or redeem call, and not a step of interleaved redeem calls.
C19_UsedCountNeverDecreases ==
    [][/\ \A c \in promos, q \in promos' :
             q.id = c.id => q.used_count >= c.used_count
       /\ \A q \in promos' :
             (~\E c \in promos : c.id = q.id) => q.used_count = 0]_vars

(***************************************************************************)
(* Lifecycle properties, under SpecLifecycle.                              *)
(***************************************************************************)
SoftDeleteOps == {"delete_friend", "delete_promo", "delete_user", "delete_record"}

HardDeleteOps == {"hard_delete_friend", "hard_delete_promo", "hard_delete_user",
                  "hard_delete_record"}

RestoreOps == {"restore_friend", "restore_promo", "restore_user", "restore_record"}

\* This step is the call op(id), op one of ops
Called(ops, id) == last'.op \in ops /\ last'.arg[1] = id

\* Record y is record x but for the fields in except
SameBut(x, y, except) ==
    /\ DOMAIN y = DOMAIN x
    /\ \A f \in DOMAIN x \ except : y[f] = x[f]

\* C12: in every table, SoftDelete of an active record x changes is_deleted and
\* deleted_at alone, and Restore of the soft-deleted record succeeds and
\* changes those two alone, leaving is_deleted false: after SoftDelete then
\* Restore every field of x but deleted_at is as before the deletion, and no
\* other record has changed.
C12_RestoreAfterSoftDelete ==
    [][\A x \in Records :
          /\ (~x.is_deleted /\ Called(SoftDeleteOps, x.id)) =>
                /\ last'.res = "ok"
                /\ \E y \in Records' :
                      /\ y.id = x.id /\ y.is_deleted
                      /\ SameBut(x, y, {"is_deleted", "deleted_at"})
                      /\ Records' \ {y} = Records \ {x}
          /\ (x.is_deleted /\ Called(RestoreOps, x.id)) =>
                /\ last'.res = "ok"
                /\ \E y \in Records' :
                      /\ y.id = x.id /\ ~y.is_deleted
                      /\ SameBut(x, y, {"is_deleted", "deleted_at"})
                      /\ Records' \ {y} = Records \ {x}]_vars

\* An accepted edge was soft-deleted and restored: it is active and accepted.
C12_Witness ==
    /\ kind = "friends"
    /\ last.op = "restore_friend" /\ last.res = "ok"
    /\ \E y \in friends : y.id = last.ret /\ ~y.is_deleted /\ y.accept

\* C13: in every table, Restore of a record that exists and is not
\* soft-deleted is refused with NotDeleted and the table is left as it was.
C13_RestoreActiveRefused ==
    [][\A x \in Records :
          (~x.is_deleted /\ Called(RestoreOps, x.id)) =>
              last'.res = "NotDeleted" /\ Records' = Records]_vars

\* A restore of an active payment was refused.
C13_Witness ==
    /\ kind = "payments"
    /\ last.op = "restore_record" /\ last.res = "NotDeleted"
    /\ \E x \in Records : x.id = last.arg[1] /\ ~x.is_deleted

\* The precondition failures of the lifecycle (error kind InvalidState)
InvalidState == {"NotDeleted", "AlreadyActive"}

\* C14, as claimed: SoftDelete of a record that is already soft-deleted fails
\* with an InvalidState error.
C14_SoftDeleteDeletedInvalidState ==
    [][\A x \in Records :
          (x.is_deleted /\ Called(SoftDeleteOps, x.id)) =>
              last'.res \in InvalidState]_vars

\* C14, amended: SoftDelete of a record that is already soft-deleted fails
\* with NotFound (the lookup of the delete services leaves soft-deleted
\* records out) and the table is left as it was.
C14_SoftDeleteDeletedNotFound ==
    [][\A x \in Records :
          (x.is_deleted /\ Called(SoftDeleteOps, x.id)) =>
              last'.res = "NotFound" /\ Records' = Records]_vars

\* A soft delete of a soft-deleted game was refused with NotFound.
C14_Witness ==
    /\ kind = "games"
    /\ last.op = "delete_record" /\ last.res = "NotFound"
    /\ \E x \in Records : x.id = last.arg[1] /\ x.is_deleted

\* C15: a delete call with hard_delete true on a record that exists, active or
\* soft-deleted, succeeds and removes the record from the table.
C15_HardDeleteWhateverState ==
    [][\A x \in Records :
          Called(HardDeleteOps, x.id) =>
              /\ last'.res = "ok"
              /\ ~\E y \in Records' : y.id = x.id]_vars

\* C16: every record of every table has is_deleted true exactly when
\* deleted_at is set, after any create (re-creation of a soft-deleted edge or
\* code included), update, soft delete and restore calls.
C16_DeletedIffDeletedAt ==
    \A x \in Records : x.is_deleted <=> (x.deleted_at # NULL)

\* A user was soft-deleted and restored while another user stays soft-deleted.
C16_Witness ==
    /\ kind = "users"
    /\ last.op = "restore_user" /\ last.res = "ok"
    /\ \E x \in users : x.id = last.ret /\ ~x.is_deleted /\ x.deleted_at = NULL
    /\ \E z \in users : z.is_deleted /\ z.deleted_at # NULL

\* C17: after a delete call on a user with the default options (hard_delete
\* false) succeeds, the users table holds no row with that id.
C17_DeletedUserIsGone ==
    (last.op = "delete_user" /\ last.res = "ok") =>
        ~\E u \in users : u.id = last.ret

\* C20: every Users row has nb_ticket >= 0.
C20_TicketsNonNegative ==
    \A u \in users : u.nb_ticket >= 0

(***************************************************************************)
(* Error handling, under SpecServices.                                     *)
(***************************************************************************)
\* C21: a call of a friendship, promo-code or lifecycle service that returns an
\* error leaves every table of the store as it was before the call.
C21_ErrorLeavesStoreUnchanged ==
    [][last'.res \notin {"ok", "none"} =>
          /\ friends' = friends
          /\ promos' = promos
          /\ users' = users
          /\ tables' = tables]_vars

\* A redeem of a usable code was refused for its user, the code row in place.
C21_Witness ==
    /\ last.op = "redeem" /\ last.res = "UserNotFound"
    /\ \E c \in promos : ~c.is_deleted /\ c.code = upper(last.arg[1])

(***************************************************************************)
(* The deletion scope of the queries, under SpecLifecycle.                 *)
(***************************************************************************)
UpdateOps == {"update_friend", "update_promo", "update_user", "update_record"}

\* C24: in every table and for every record x of it: when x is soft-deleted,
\* get-by-id with include_deleted false answers NotFound, the list with
\* include_deleted false omits x (the list of active promo codes as well), and
\* an update or a delete (soft or hard) call on x answers NotFound and leaves
\* the table as it was; the list with include_deleted false returns every
\* record that is not soft-deleted and no other; with include_deleted true
\* get-by-id returns x and the list holds x, soft-deleted or not.
C24_DefaultScopeLeavesDeletedOut ==
    [][/\ \A x \in Records :
             /\ x.is_deleted =>
                   /\ get_record(kind, Records, x.id, FALSE) = Got("NotFound", {})
                   /\ x \notin list_records(kind, Records, FALSE).rows
                   /\ Called(UpdateOps \cup SoftDeleteOps \cup HardDeleteOps, x.id) =>
                         last'.res = "NotFound" /\ Records' = Records
             /\ ~x.is_deleted =>
                   /\ get_record(kind, Records, x.id, FALSE) = Got("ok", {x})
                   /\ x \in list_records(kind, Records, FALSE).rows
             /\ get_record(kind, Records, x.id, TRUE) = Got("ok", {x})
             /\ x \in list_records(kind, Records, TRUE).rows
       /\ list_records(kind, Records, FALSE).rows \subseteq Records
       /\ list_records(kind, Records, TRUE).rows \subseteq Records
       /\ \A x \in promos :
             /\ x.is_deleted => x \notin get_all_promo_codes_service(promos, FALSE, FALSE).rows
             /\ x.is_active => x \in get_all_promo_codes_service(promos, FALSE, TRUE).rows]_vars

\* An update of a soft-deleted edge was refused, a second edge being active.
C24_Witness ==
    /\ kind = "friends"
    /\ last.op = "update_friend" /\ last.res = "NotFound"
    /\ \E x \in friends : x.is_deleted /\ last.arg[1] = x.id
    /\ \E y \in friends : ~y.is_deleted

(***************************************************************************)
(* One record per pair of users, under SpecFriends.                        *)
(***************************************************************************)
\* The records between a and b, both directions, active or soft-deleted
Between(db, a, b) == {r \in db : Edge(r, a, b) \/ Edge(r, b, a)}

\* C29: whatever atomic calls ran, any two users have at most one record
\* between them, both directions and both deletion states counted; so after a
\* successful restore call, which checks no uniqueness, the edge restored is
\* the only active edge between its two users.
C29_OneRecordPerPair ==
    /\ \A a \in UserIds, b \in UserIds : Cardinality(Between(friends, a, b)) <= 1
    /\ (last.op = "restore_friend" /\ last.res = "ok") =>
          \A r \in friends :
              r.id = last.ret =>
                  ActiveBetween(friends, r.friend_from_id, r.friend_to_id) = {r}

\* The soft-deleted edge (B,A) was restored while user A has an edge with
\* itself: the restored edge is the one record between A and B.
C29_Witness ==
    /\ last.op = "restore_friend" /\ last.res = "ok"
    /\ \E r \in friends : r.id = last.ret /\ Edge(r, 2, 1) /\ ~r.is_deleted
    /\ Between(friends, 1, 2) # {} /\ Between(friends, 1, 1) # {}

\* C30: while a record (A,B) between two users is in the table, active or
\* soft-deleted, every create call (B,A) is refused, and the record leaves the
\* table only in a successful hard-delete call on it; a hard-delete call
\* removes the record when it is active and is refused with NotFound, the
\* table unchanged, when it is soft-deleted; once no record is between A and
\* B, a create call in either direction succeeds and inserts a record whose
\* id is new: above the id of every record that was ever in the table.
C30_ReverseRefusedUntilHardDelete ==
    [][/\ \A x \in friends :
             /\ (x.friend_from_id # x.friend_to_id
                   /\ CreatedFriend(x.friend_to_id, x.friend_from_id)) =>
                      last'.res # "ok" /\ friends' = friends
             /\ (~\E y \in friends' : y.id = x.id) =>
                    Called({"hard_delete_friend"}, x.id) /\ last'.res = "ok"
             /\ Called({"hard_delete_friend"}, x.id) =>
                    IF x.is_deleted
                    THEN last'.res = "NotFound" /\ friends' = friends
                    ELSE last'.res = "ok" /\ friends' = friends \ {x}
             /\ x.id < nextFriendId
       /\ nextFriendId' >= nextFriendId
       /\ \A a \in UserIds, b \in UserIds :
             (Between(friends, a, b) = {} /\ CreatedFriend(a, b)) =>
                 /\ last'.res = "ok"
                 /\ last'.ret = nextFriendId
                 /\ nextFriendId' = nextFriendId + 1
                 /\ \E y \in friends' : /\ y.id = last'.ret /\ Edge(y, a, b)
                                        /\ friends' \ {y} = friends]_vars

\* A create call (B,A) inserted a record after the record inserted before it
\* was hard-deleted: no record is between the two users but the new one.
C30_Witness ==
    /\ last.op = "create_friend" /\ last.res = "ok" /\ last.arg = <<2, 1>>
    /\ last.ret = 2
    /\ \A r \in friends : r.id = 2
    /\ Between(friends, 1, 2) # {}

(***************************************************************************)
(* The frame of UpdateFriendship, under SpecFriends.                       *)
(***************************************************************************)
\* C26: an update call on an active edge succeeds and changes, of that edge,
\* no field but the flags the patch sets: every flag the patch leaves unset,
\* id, friend_from_id, friend_to_id, is_deleted and deleted_at keep their
\* values, and no other edge changes.
C26_UpdateChangesSentFlagsOnly ==
    [][\A x \in friends :
          (~x.is_deleted /\ Called({"update_friend"}, x.id)) =>
              /\ last'.res = "ok"
              /\ last'.arg[2] \subseteq FriendFlags
              /\ \E y \in friends' :
                    /\ y.id = x.id
                    /\ SameBut(x, y, last'.arg[2])
                    /\ friends' \ {y} = friends \ {x}]_vars

\* An update that sent decline alone ended on an accepted edge.
C26_Witness ==
    /\ last.op = "update_friend" /\ last.res = "ok"
    /\ last.arg[2] = {"decline"}
    /\ \E y \in friends : y.id = last.ret /\ y.accept /\ y.decline

(***************************************************************************)
(* The friendship queries, under SpecFriends.                              *)
(***************************************************************************)
\* C25: an active edge (A,B) that is pending (accept and decline false) is in
\* PendingReceived(B) and in neither FriendsOf(A) nor FriendsOf(B); an active
\* edge with accept true is in FriendsOf(A) and FriendsOf(B) and not in
\* PendingReceived(B); no soft-deleted edge is in FriendsOf or PendingReceived
\* of any user.
C25_QueriesFollowStatus ==
    \A r \in friends :
        LET a == r.friend_from_id
            b == r.friend_to_id IN
        /\ (~r.is_deleted /\ ~r.accept /\ ~r.decline) =>
               /\ r \in PendingReceived(b)
               /\ r \notin FriendsOf(a) /\ r \notin FriendsOf(b)
        /\ (~r.is_deleted /\ r.accept) =>
               /\ r \in FriendsOf(a) /\ r \in FriendsOf(b)
               /\ r \notin PendingReceived(b)
        /\ r.is_deleted =>
               \A u \in UserIds : r \notin FriendsOf(u) /\ r \notin PendingReceived(u)

\* An update call left the edge (A,B) accepted while another edge is
\* soft-deleted.
C25_Witness ==
    /\ last.op = "update_friend" /\ last.res = "ok"
    /\ \E r \in friends : /\ r.id = last.ret /\ Edge(r, 1, 2)
                           /\ ~r.is_deleted /\ r.accept /\ ~r.decline
    /\ \E q \in friends : q.is_deleted

(***************************************************************************)
(* The lifecycle state machine, under SpecLifecycle.                       *)
(***************************************************************************)
CreateOps == {"create_friend", "create_promo", "create_user", "create_record"}

\* The ids that were given to a record of the table and have no record now
Gone == {id \in 1..(NextId - 1) : ~\E x \in Records : x.id = id}

\* C27: in every table, is_deleted of a record goes from false to true only
\* in a successful soft-delete call on it, and from true to false only in a
\* successful restore call on it or a create call that returns it; a record
\* leaves the table only in a successful hard-delete call on it; a record
\* enters the table only with a fresh id, so an id that has left never has a
\* record again, and get, update, delete and restore on such an id answer
\* NotFound.
C27_LifecycleTransitionsOnly ==
    [][/\ \A x \in Records, y \in Records' :
             y.id = x.id =>
                /\ (~x.is_deleted /\ y.is_deleted) =>
                       Called(SoftDeleteOps, x.id) /\ last'.res = "ok"
                /\ (x.is_deleted /\ ~y.is_deleted) =>
                       \/ Called(RestoreOps, x.id) /\ last'.res = "ok"
                       \/ last'.op \in CreateOps /\ last'.res = "ok" /\ last'.ret = x.id
       /\ \A x \in Records :
             (~\E y \in Records' : y.id = x.id) =>
                 Called(HardDeleteOps, x.id) /\ last'.res = "ok"
       /\ \A y \in Records' :
             (~\E x \in Records : x.id = y.id) => y.id = NextId /\ NextId' = NextId + 1
       /\ NextId' >= NextId
       /\ \A x \in Records : x.id < NextId
       /\ \A id \in Gone :
             /\ get_record(kind, Records, id, FALSE).res = "NotFound"
             /\ get_record(kind, Records, id, TRUE).res = "NotFound"
             /\ Called(UpdateOps \cup SoftDeleteOps \cup HardDeleteOps \cup RestoreOps, id)
                   => last'.res = "NotFound" /\ Records' = Records]_vars

\* A restore of a hard-deleted promo code was refused while a record inserted
\* after it is in the table.
C27_Witness ==
    /\ kind = "promo_codes"
    /\ last.op = "restore_promo" /\ last.res = "NotFound"
    /\ last.arg[1] \in Gone
    /\ \E x \in promos : x.id > last.arg[1]

(***************************************************************************)
(* The uniqueness of the code, under SpecPromoCodes.                       *)
(***************************************************************************)
\* No two records of the table, active or soft-deleted, hold the same code.
UniqueCodes == \A x \in promos, y \in promos : x.code = y.code => x.id = y.id

\* This step is a create call for the code c
CreatedCode(c) == last'.op = "create_promo" /\ last'.arg[1] = c

\* This step is an update call on record id that sends the code c
RenamedTo(id, c) ==
    /\ last'.op = "update_promo" /\ last'.arg[1] = id
    /\ "code" \in DOMAIN last'.arg[2] /\ last'.arg[2]["code"] = c

\* An update call that sends a code held by another record, active or
\* soft-deleted, is refused with CodeExists and changes nothing.
UpdateRejectsHeldCode ==
    \A x \in promos, id \in 1..MaxPromoRows :
        (id # x.id /\ RenamedTo(id, x.code) /\ \E z \in promos : z.id = id /\ ~z.is_deleted)
            => last'.res = "CodeExists" /\ promos' = promos

\* C28, as claimed: no two records hold the same code, and a create call and
\* an update call with a code held by another record, active or soft-deleted,
\* are refused.
C28_HeldCodeRejected ==
    [][/\ UniqueCodes
       /\ \A x \in promos : CreatedCode(x.code) => last'.res = "CodeExists"
       /\ UpdateRejectsHeldCode]_vars

\* C28, amended: no two records hold the same code; a create call with a code
\* held by a record gives the code to no second record: it is refused with
\* CodeExists when the holder is active and it takes the holder over (same id,
\* restored, no record added) when the holder is soft-deleted; an update call
\* with a code held by another record, active or soft-deleted, is refused; so
\* a restore call never makes two active records share a code.
C28_HeldCodeNeverShared ==
    [][/\ UniqueCodes
       /\ \A x \in promos :
             CreatedCode(x.code) =>
                /\ ~x.is_deleted => last'.res = "CodeExists" /\ promos' = promos
                /\ x.is_deleted =>
                      /\ last'.res = "ok" /\ last'.ret = x.id
                      /\ {y.id : y \in promos'} = {y.id : y \in promos}
                /\ \A y \in promos' : y.code = x.code => y.id = x.id
       /\ UpdateRejectsHeldCode
       /\ (last'.op = "restore_promo" /\ last'.res = "ok") =>
             \A y \in promos', z \in promos' :
                 (~y.is_deleted /\ ~z.is_deleted /\ y.code = z.code) => y.id = z.id]_vars

\* An update that sends the code of a soft-deleted record was refused.
C28_Witness ==
    /\ last.op = "update_promo" /\ last.res = "CodeExists"
    /\ \E x \in promos : /\ x.is_deleted /\ x.id # last.arg[1]
                          /\ last.arg[2]["code"] = x.code
    /\ Cardinality(promos) = 2

====
